---- MODULE Spec2Model ----
(***************************************************************************)
(* Model of the multitools backend (Express handlers of the upload-and-    *)
(* convert pipeline): staging directory, per-request handler positions,    *)
(* the ffmpeg child process of audio/convert and the responses sent.       *)
(* Strings that the code converts (file names, target formats) are         *)
(* sequences of one-character strings; byte buffers are sequences of       *)
(* integers in 0..255.                                                     *)
(***************************************************************************)
EXTENDS Integers, Sequences, FiniteSets, TLC

\* ------------------------------------------------------------------ bounds
MaxReqs == 2          \* request slots of the server
MaxBufLen == 3        \* longest buffer a collaborator produces
MaxChunks == 2        \* stderr chunks the transcoder emits at most

Reqs == 1..MaxReqs

\* JavaScript values of the request body: undefined, null, a boolean, a
\* string (a sequence of characters), a number, or an array [k] of one number
Undefined == [t |-> "undefined", s |-> <<>>, n |-> 0]
JStr(v) == [t |-> "string", s |-> v, n |-> 0]
JNum(k) == [t |-> "number", s |-> <<>>, n |-> k]
JNull == [t |-> "null", s |-> <<>>, n |-> 0]
JBool(b) == [t |-> "boolean", s |-> <<>>, n |-> IF b THEN 1 ELSE 0]
JArr(k) == [t |-> "array", s |-> <<>>, n |-> k]

NoPath == <<>>        \* no path: req.file absent, outputPath not allocated
NoMessage == [kind |-> "none", code |-> "", text |-> <<>>]

\* ------------------------------------------------------- string helpers
RECURSIVE LastDot(_, _)
\* String.prototype.lastIndexOf("."), 1-based, 0 when there is none
LastDot(s, i) ==
    IF i = 0 THEN 0
    ELSE IF s[i] = "." THEN i ELSE LastDot(s, i - 1)

LowerChar(c) ==
    CASE c = "D" -> "d" [] c = "O" -> "o" [] c = "C" -> "c" [] c = "X" -> "x"
      [] c = "P" -> "p" [] c = "F" -> "f" [] c = "M" -> "m" [] c = "W" -> "w"
      [] c = "A" -> "a" [] c = "V" -> "v" [] c = "G" -> "g" [] c = "L" -> "l"
      [] OTHER -> c

\* String.prototype.toLowerCase
toLowerCase(s) == [i \in 1..Len(s) |-> LowerChar(s[i])]

\* path.extname on a base name (multer strips directories from originalname):
\* from the last dot to the end, "" when there is no dot or the only dot
\* is the first character
extname(s) ==
    LET d == LastDot(s, Len(s)) IN
    IF d <= 1 THEN <<>> ELSE SubSeq(s, d, Len(s))

EndsWith(s, suf) ==
    /\ Len(s) >= Len(suf)
    /\ SubSeq(s, Len(s) - Len(suf) + 1, Len(s)) = suf

\* s.replace(/\.<ext>$/i, to): ext is given with its dot, in lower case
replaceExtI(s, ext, to) ==
    IF Len(s) >= Len(ext) /\ EndsWith(toLowerCase(s), ext)
    THEN SubSeq(s, 1, Len(s) - Len(ext)) \o to
    ELSE s

\* s.replace(/\.[^.]+$/, to): the last dot must be followed by at least one
\* character; a name without such a suffix is returned unchanged
replaceAnyExt(s, to) ==
    LET d == LastDot(s, Len(s)) IN
    IF d >= 1 /\ d < Len(s)
    THEN SubSeq(s, 1, d - 1) \o to
    ELSE s

\* ------------------------------------------------------------ byte buffers
Bytes == {77, 255}

RECURSIVE SeqsUpTo(_, _)
SeqsUpTo(S, n) ==
    IF n = 0 THEN {<<>>}
    ELSE LET shorter == SeqsUpTo(S, n - 1) IN
         shorter \cup {Append(q, x) : q \in {t \in shorter : Len(t) = n - 1}, x \in S}

Buffers == SeqsUpTo(Bytes, MaxBufLen)

B64Alphabet ==
    << "A","B","C","D","E","F","G","H","I","J","K","L","M","N","O","P",
       "Q","R","S","T","U","V","W","X","Y","Z","a","b","c","d","e","f",
       "g","h","i","j","k","l","m","n","o","p","q","r","s","t","u","v",
       "w","x","y","z","0","1","2","3","4","5","6","7","8","9","+","/" >>

B64Char(n) == B64Alphabet[n + 1]
B64Val(c) == (CHOOSE i \in 1..64 : B64Alphabet[i] = c) - 1

\* an encoder that shifts the second byte wrongly
toBase64_badShift(b) ==
    IF Len(b) = 0 THEN <<>>
    ELSE IF Len(b) = 1 THEN
        << B64Char(b[1] \div 4), B64Char((b[1] % 4) * 16), "=", "=" >>
    ELSE << B64Char(b[1] \div 4), B64Char((b[1] % 4) * 16 + b[2] \div 32),
            B64Char((b[2] % 16) * 4), "=" >>

RECURSIVE toBase64(_)
\* Buffer.prototype.toString("base64"): 3 bytes -> 4 digits, "=" padding
toBase64(b) ==
    IF Len(b) = 0 THEN <<>>
    ELSE IF Len(b) = 1 THEN
        << B64Char(b[1] \div 4), B64Char((b[1] % 4) * 16), "=", "=" >>
    ELSE IF Len(b) = 2 THEN
        << B64Char(b[1] \div 4), B64Char((b[1] % 4) * 16 + b[2] \div 16),
           B64Char((b[2] % 16) * 4), "=" >>
    ELSE
        << B64Char(b[1] \div 4), B64Char((b[1] % 4) * 16 + b[2] \div 16),
           B64Char((b[2] % 16) * 4 + b[3] \div 64), B64Char(b[3] % 64) >>
        \o toBase64(SubSeq(b, 4, Len(b)))

\* `data:${mimeType};base64,${base64}`: three header tokens, then the digits
DataUrl(mimeType, base64) == << "data:", mimeType, ";base64," >> \o base64

\* object spread { ...base, ...extra }
Spread(base, extra) ==
    [k \in DOMAIN base \cup DOMAIN extra |->
        IF k \in DOMAIN extra THEN extra[k] ELSE base[k]]

fileToDataUrlResponse(buffer, mimeType, fileName, extra) ==
    LET base64 == toBase64(buffer)
        dataUrl == DataUrl(mimeType, base64)
    IN  Spread([fileName |-> fileName, mimeType |-> mimeType, dataUrl |-> dataUrl],
               extra)

\* ------------------------------------------------------ staging directory
NoFile == [exists |-> FALSE, data |-> <<>>]     \* no entry at that path
File(b) == [exists |-> TRUE, data |-> b]

InPath(r) == << "upload", ToString(r) >>   \* multer's random file name of request r
\* an output path that is not unique to the request
OutPath_shared(r) == << "upload", "2" >>
OutPath(r) == << "out", ToString(r) >>     \* path.join(uploadDir, `${uuidv4()}.${safeFormat}`)
Paths == {InPath(r) : r \in Reqs} \cup {OutPath(r) : r \in Reqs}

\* promisify(fs.unlink): fails when the entry is missing, or when the
\* operating system refuses the removal (envFail)
unlinkAsync(dir, p, envFail) ==
    IF ~dir[p].exists THEN [dir |-> dir, ok |-> FALSE]
    ELSE IF envFail THEN [dir |-> dir, ok |-> FALSE]
    ELSE [dir |-> [dir EXCEPT ![p] = NoFile], ok |-> TRUE]

\* safeUnlink without its try/catch: a failed removal is raised
safeUnlink_raising(dir, p, envFail) ==
    LET u == unlinkAsync(dir, p, envFail)
    IN  [dir |-> u.dir, ok |-> u.ok, raised |-> ~u.ok]

\* safeUnlink: the catch swallows every failure of unlinkAsync
safeUnlink(dir, p, envFail) ==
    LET u == unlinkAsync(dir, p, envFail)
    IN  [dir |-> u.dir, ok |-> u.ok, raised |-> FALSE]

\* ------------------------------------------------------------ the inputs
Routes == { "health", "docx-to-pdf", "pdf-to-docx", "image/compress",
            "url/qr", "audio/convert", "calc/bmi" }
FileRoutes == { "docx-to-pdf", "pdf-to-docx", "image/compress", "audio/convert" }

DocNames ==
    { << "a", ".", "d", "o", "c", "x" >>,
      << "a", ".", "D", "o", "c", "X" >>,
      << "a", ".", "p", "d", "f" >>,
      << "a", ".", "P", "D", "F" >>,
      << "a", ".", "b", ".", "d", "o", "c", "x" >>,
      << "a", ".", "d", "o", "c", "x", ".", "p", "d", "f" >>,
      << ".", "d", "o", "c", "x" >>,
      << "a" >> }
ImageNames == { << "i", ".", "p", "n", "g" >> }
AudioNames ==
    { << "s", ".", "f", "l", "a", "c" >>,
      << "s", ".", "v", "1", ".", "w", "a", "v" >>,
      << "s" >> }

DocMimes == { "application/octet-stream" }
ImageMimes == { "image/jpeg", "image/webp", "image/gif" }
AudioMimes == { "audio/flac", "audio/mpeg" }

Fmt_mp3 == << "m", "p", "3" >>
Fmt_aac == << "a", "a", "c" >>
Fmt_wav == << "w", "a", "v" >>
Fmt_ogg == << "o", "g", "g" >>
TargetFormats ==
    { Undefined, JStr(<< "W", "A", "V" >>), JStr(Fmt_aac), JStr(Fmt_ogg),
      JStr(<< "f", "l", "a", "c" >>), JStr(<< "F", "L", "A", "C" >>) }
Bitrates == { Undefined, JStr(<< "1", "2", "8", "k" >>) }

UploadContents == { << 77 >>, << 0, 255 >> }
UploadContentsOf(route) ==
    IF route = "image/compress" THEN UploadContents ELSE { << 77 >> }

Urls == { Undefined, JNull, JNum(42), JBool(TRUE), JArr(1), JStr(<<>>),
          JStr(<< "h", ":", "a" >>), JStr(<< "x" >>) }
Heights == { Undefined, JNull, JBool(TRUE), JNum(0), JNum(-170),
             JStr(<< "1", "8", "0" >>), JStr(<< "t", "a", "l", "l" >>), JArr(180),
             JNum(160), JNum(174), JNum(180), JNum(200) }
Weights == { Undefined, JBool(FALSE), JNum(0), JStr(<< "7", "5" >>), JStr(<<>>),
             JNum(56), JNum(64), JNum(74), JNum(75), JNum(100), JNum(120) }

NoUpload == [path |-> NoPath, originalname |-> <<>>, mimetype |-> "", size |-> 0]
NoBody == [targetFormat |-> Undefined, bitrate |-> Undefined, url |-> Undefined,
           heightCm |-> Undefined, weightKg |-> Undefined]

UploadsOf(route, r) ==
    LET names == IF route = "audio/convert" THEN AudioNames
                 ELSE IF route = "image/compress" THEN ImageNames ELSE DocNames
        mimes == IF route = "audio/convert" THEN AudioMimes
                 ELSE IF route = "image/compress" THEN ImageMimes ELSE DocMimes
    IN  { [path |-> InPath(r), originalname |-> n, mimetype |-> m, size |-> Len(c)] :
            n \in names, m \in mimes, c \in UploadContentsOf(route) }

BodiesOf(route) ==
    IF route = "audio/convert" THEN
        { [NoBody EXCEPT !.targetFormat = f, !.bitrate = b] :
            f \in TargetFormats, b \in Bitrates }
    ELSE IF route = "url/qr" THEN { [NoBody EXCEPT !.url = u] : u \in Urls }
    ELSE IF route = "calc/bmi" THEN
        { [NoBody EXCEPT !.heightCm = h, !.weightKg = w] : h \in Heights, w \in Weights }
    ELSE { NoBody }

\* ------------------------------------------------------------- the state
VARIABLES
    live,       \* request slots that receive a request in this run
    staging,    \* the upload directory: path -> content, or NoFile
    req,        \* per request: route, req.file and req.body
    pc,         \* per request: the handler's position
    loc,        \* per request: the handler's local variables
    proc,       \* per request: the spawned ffmpeg process and its promise
    sent,       \* per request: the responses sent, in order
    unlinks,    \* per request: the calls of safeUnlink, in order
    reads       \* per request: the paths given to readFileAsync, in order

vars == << live, staging, req, pc, loc, proc, sent, unlinks, reads >>

NoReq == [route |-> "", file |-> NoUpload, body |-> NoBody]
NoLoc == [buf |-> <<>>, out |-> <<>>, outputPath |-> NoPath, ffArgs |-> <<>>, safeFormat |-> <<>>,
          bitrate |-> Undefined]
NoProc == [state |-> "none", promise |-> "none", reason |-> NoMessage,
           stderr |-> <<>>, code |-> "", events |-> <<>>]

InitWith(slots) ==
    /\ live = slots
    /\ staging = [p \in Paths |-> NoFile]
    /\ req = [r \in Reqs |-> NoReq]
    /\ pc = [r \in Reqs |-> "idle"]
    /\ loc = [r \in Reqs |-> NoLoc]
    /\ proc = [r \in Reqs |-> NoProc]
    /\ sent = [r \in Reqs |-> <<>>]
    /\ unlinks = [r \in Reqs |-> <<>>]
    /\ reads = [r \in Reqs |-> <<>>]

Init == InitWith({1})

\* ---------------------------------------------------- handler primitives
\* res.status(status).json(body)
Respond(r, status, body) ==
    sent' = [sent EXCEPT ![r] = Append(@, [status |-> status, body |-> body])]

\* { error: "..." }
ErrorBody(error) == [error |-> error]

\* an error body that leaves the fault's message out
FailBody_withoutDetails(error, details) == [error |-> error]

\* { error: "...", details: err.message }
FailBody(error, details) == [error |-> error, details |-> details]

\* await safeUnlink(p) at a handler position
AwaitUnlink(r, p, envFail) ==
    LET u == safeUnlink(staging, p, envFail)
    IN  /\ staging' = u.dir
        /\ unlinks' = [unlinks EXCEPT ![r] = Append(@, [path |-> p, ok |-> u.ok,
                                                        raised |-> u.raised])]

Raised(r) == unlinks'[r][Len(unlinks'[r])].raised

\* await readFileAsync(p): the content, or an error when there is no entry
\* or the read fails (envFail)
ReadResult(dir, p, envFail) ==
    IF ~dir[p].exists
    THEN [ok |-> FALSE, err |-> [kind |-> "ENOENT", code |-> "", text |-> <<>>], buf |-> <<>>]
    ELSE IF envFail
    THEN [ok |-> FALSE, err |-> [kind |-> "EIO", code |-> "", text |-> <<>>], buf |-> <<>>]
    ELSE [ok |-> TRUE, err |-> NoMessage, buf |-> dir[p].data]

\* a request arrives; upload.single("file") stages the upload, if any
Receive(r) ==
    /\ pc[r] = "idle"
    /\ r \in live
    /\ \E route \in Routes :
         \E f \in (IF route \in FileRoutes THEN UploadsOf(route, r) ELSE {}) \cup {NoUpload},
            c \in UploadContents, b \in BodiesOf(route) :
            /\ f.path # NoPath => Len(c) = f.size
            /\ f.path = NoPath => c = << 77 >>
            /\ req' = [req EXCEPT ![r] = [route |-> route, file |-> f, body |-> b]]
            /\ staging' = IF f.path = NoPath THEN staging
                          ELSE [staging EXCEPT ![f.path] = File(c)]
    /\ pc' = [pc EXCEPT ![r] = "start"]
    /\ UNCHANGED << live, loc, proc, sent, unlinks, reads >>

Goto(r, label) == pc' = [pc EXCEPT ![r] = label]

\* ------------------------------------------------------- GET /api/health
Health(r) ==
    /\ pc[r] = "start"
    /\ req[r].route = "health"
    /\ Respond(r, 200, [status |-> "ok"])
    /\ Goto(r, "done")
    /\ UNCHANGED << live, staging, req, loc, proc, unlinks, reads >>

\* ------------------------------------------- the two document conversions
Ext_docx == << ".", "d", "o", "c", "x" >>
Ext_pdf == << ".", "p", "d", "f" >>
Mime_pdf == "application/pdf"
Mime_docx == "application/vnd.openxmlformats-officedocument.wordprocessingml.document"

DocRoutes == { "docx-to-pdf", "pdf-to-docx" }
\* a handler that expects .docx in both directions
SrcExt_docxOnly(route) == Ext_docx
SrcExt(route) == IF route = "docx-to-pdf" THEN Ext_docx ELSE Ext_pdf
OutputExt(route) == IF route = "docx-to-pdf" THEN Ext_pdf ELSE Ext_docx
DocMime(route) == IF route = "docx-to-pdf" THEN Mime_pdf ELSE Mime_docx
DocRejectText(route) ==
    IF route = "docx-to-pdf" THEN "Only .docx files are allowed"
    ELSE "Only .pdf files are allowed"

EngineErrors == { [kind |-> "engine", code |-> "", text |-> << "soffice failed" >>] }

\* from the entry of the handler to its first await
DocStart(r) ==
    /\ pc[r] = "start"
    /\ req[r].route \in DocRoutes
    /\ IF req[r].file.path = NoPath
       THEN /\ Respond(r, 400, ErrorBody("No file uploaded"))
            /\ Goto(r, "done")
       ELSE LET ext == toLowerCase(extname(req[r].file.originalname)) IN
            /\ Goto(r, IF ext # SrcExt(req[r].route) THEN "doc_reject" ELSE "doc_read")
            /\ UNCHANGED sent
    /\ UNCHANGED << live, staging, req, loc, proc, unlinks, reads >>

\* await safeUnlink(inputPath); return res.status(400).json(...), in the try
DocReject(r) ==
    /\ pc[r] = "doc_reject"
    /\ \E envFail \in BOOLEAN : AwaitUnlink(r, req[r].file.path, envFail)
    /\ IF Raised(r)
       THEN Respond(r, 500, FailBody("Conversion failed",
                                     [kind |-> "unlink", code |-> "", text |-> <<>>]))
       ELSE Respond(r, 400, ErrorBody(DocRejectText(req[r].route)))
    /\ Goto(r, "doc_finally")
    /\ UNCHANGED << live, req, loc, proc, reads >>

\* a read whose failure is not answered by the catch block
DocRead_noCatch(r) ==
    /\ pc[r] = "doc_read"
    /\ reads' = [reads EXCEPT ![r] = Append(@, req[r].file.path)]
    /\ \E envFail \in BOOLEAN :
        LET rd == ReadResult(staging, req[r].file.path, envFail) IN
        IF rd.ok
        THEN /\ loc' = [loc EXCEPT ![r].buf = rd.buf]
             /\ Goto(r, "doc_convert")
        ELSE /\ Goto(r, "doc_finally")
             /\ UNCHANGED loc
    /\ UNCHANGED << live, staging, req, proc, unlinks, sent >>

\* await readFileAsync(inputPath)
DocRead(r) ==
    /\ pc[r] = "doc_read"
    /\ reads' = [reads EXCEPT ![r] = Append(@, req[r].file.path)]
    /\ \E envFail \in BOOLEAN :
        LET rd == ReadResult(staging, req[r].file.path, envFail) IN
        IF rd.ok
        THEN /\ loc' = [loc EXCEPT ![r].buf = rd.buf]
             /\ Goto(r, "doc_convert")
             /\ UNCHANGED sent
        ELSE /\ Respond(r, 500, FailBody("Conversion failed", rd.err))
             /\ Goto(r, "doc_finally")
             /\ UNCHANGED loc
    /\ UNCHANGED << live, staging, req, proc, unlinks >>

\* a conversion whose success is answered by the try and by the catch
DocConvert_answersTwice(r) ==
    /\ pc[r] = "doc_convert"
    /\ \/ \E out \in Buffers :
            /\ loc' = [loc EXCEPT ![r].out = out]
            /\ sent' = [sent EXCEPT ![r] =
                  @ \o << [status |-> 200,
                           body |-> fileToDataUrlResponse(out, DocMime(req[r].route),
                               replaceExtI(req[r].file.originalname, SrcExt(req[r].route),
                                           OutputExt(req[r].route)),
                               <<>>)],
                          [status |-> 500, body |-> ErrorBody("Conversion failed")] >>]
       \/ \E err \in EngineErrors :
            /\ Respond(r, 500, FailBody("Conversion failed", err))
            /\ UNCHANGED loc
    /\ Goto(r, "doc_finally")
    /\ UNCHANGED << live, staging, req, proc, unlinks, reads >>

\* await libre.convertAsync(buf, outputExt, undefined), then the envelope
DocConvert(r) ==
    /\ pc[r] = "doc_convert"
    /\ \/ \E out \in Buffers :
            /\ loc' = [loc EXCEPT ![r].out = out]
            /\ Respond(r, 200,
                  fileToDataUrlResponse(out, DocMime(req[r].route),
                      replaceExtI(req[r].file.originalname, SrcExt(req[r].route),
                                  OutputExt(req[r].route)),
                      <<>>))
       \/ \E err \in EngineErrors :
            /\ Respond(r, 500, FailBody("Conversion failed", err))
            /\ UNCHANGED loc
    /\ Goto(r, "doc_finally")
    /\ UNCHANGED << live, staging, req, proc, unlinks, reads >>

\* finally { await safeUnlink(inputPath) }
DocFinally(r) ==
    /\ pc[r] = "doc_finally"
    /\ \E envFail \in BOOLEAN : AwaitUnlink(r, req[r].file.path, envFail)
    /\ Goto(r, IF Raised(r) THEN "unhandled" ELSE "done")
    /\ UNCHANGED << live, req, loc, proc, sent, reads >>

\* --------------------------------------------- POST /api/image/compress
\* an allow-list that lets GIF through
AllowedImageTypes_withGif == { "image/jpeg", "image/png", "image/webp", "image/gif" }
AllowedImageTypes == { "image/jpeg", "image/png", "image/webp" }
CodecErrors == { [kind |-> "codec", code |-> "", text |-> << "unsupported image" >>] }
\* `${uuidv4()}.jpg`
ImageOutputName(r) == << "uuid", ToString(r), ".", "j", "p", "g" >>

ImgStart(r) ==
    /\ pc[r] = "start"
    /\ req[r].route = "image/compress"
    /\ IF req[r].file.path = NoPath
       THEN /\ Respond(r, 400, ErrorBody("No file uploaded"))
            /\ Goto(r, "done")
       ELSE /\ Goto(r, IF req[r].file.mimetype \notin AllowedImageTypes
                       THEN "img_reject" ELSE "img_sharp")
            /\ UNCHANGED sent
    /\ UNCHANGED << live, staging, req, loc, proc, unlinks, reads >>

ImgReject(r) ==
    /\ pc[r] = "img_reject"
    /\ \E envFail \in BOOLEAN : AwaitUnlink(r, req[r].file.path, envFail)
    /\ IF Raised(r)
       THEN Respond(r, 500, FailBody("Image compression failed",
                                     [kind |-> "unlink", code |-> "", text |-> <<>>]))
       ELSE Respond(r, 400, ErrorBody("Only JPEG, PNG, or WebP images are allowed"))
    /\ Goto(r, "img_finally")
    /\ UNCHANGED << live, req, loc, proc, reads >>

\* await sharp(inputPath).jpeg({ quality: 70 }).toBuffer(), then the envelope
ImgSharp(r) ==
    /\ pc[r] = "img_sharp"
    /\ reads' = [reads EXCEPT ![r] = Append(@, req[r].file.path)]
    /\ \E envFail \in BOOLEAN :
        LET rd == ReadResult(staging, req[r].file.path, envFail) IN
        IF rd.ok
        THEN \/ \E compressedBuffer \in Buffers :
                 LET compressedSize == Len(compressedBuffer)
                     originalSize == req[r].file.size
                 IN  /\ loc' = [loc EXCEPT ![r].out = compressedBuffer]
                     /\ Respond(r, 200,
                          fileToDataUrlResponse(compressedBuffer, "image/jpeg",
                              ImageOutputName(r),
                              [originalSize |-> originalSize,
                               compressedSize |-> compressedSize,
                               compressionRatio |-> << compressedSize, originalSize >>]))
             \/ \E err \in CodecErrors :
                 /\ Respond(r, 500, FailBody("Image compression failed", err))
                 /\ UNCHANGED loc
        ELSE /\ Respond(r, 500, FailBody("Image compression failed", rd.err))
             /\ UNCHANGED loc
    /\ Goto(r, "img_finally")
    /\ UNCHANGED << live, staging, req, proc, unlinks >>

ImgFinally(r) ==
    /\ pc[r] = "img_finally"
    /\ \E envFail \in BOOLEAN : AwaitUnlink(r, req[r].file.path, envFail)
    /\ Goto(r, IF Raised(r) THEN "unhandled" ELSE "done")
    /\ UNCHANGED << live, req, loc, proc, sent, reads >>

\* ----------------------------------------------------- POST /api/url/qr
\* a test that takes the empty string for a value
Falsy_emptyStringTruthy(v) ==
    \/ v.t \in { "undefined", "null", "NaN" }
    \/ v.t = "boolean" /\ v.n = 0
    \/ v.t = "number" /\ v.n = 0

\* JavaScript's !v
Falsy(v) ==
    \/ v.t \in { "undefined", "null", "NaN" }
    \/ v.t = "boolean" /\ v.n = 0
    \/ v.t = "string" /\ v.s = <<>>
    \/ v.t = "number" /\ v.n = 0

EncoderErrors == { [kind |-> "qrcode", code |-> "", text |-> << "data too big" >>] }

QrStart(r) ==
    /\ pc[r] = "start"
    /\ req[r].route = "url/qr"
    /\ LET url == req[r].body.url IN
       IF Falsy(url) \/ url.t # "string"
       THEN /\ Respond(r, 400, ErrorBody("URL is required"))
            /\ Goto(r, "done")
       ELSE /\ Goto(r, "qr_encode")
            /\ UNCHANGED sent
    /\ UNCHANGED << live, staging, req, loc, proc, unlinks, reads >>

\* await qrcode.toDataURL(url, ...): the encoder returns a PNG data URL
QrEncode(r) ==
    /\ pc[r] = "qr_encode"
    /\ \/ \E png \in Buffers :
            Respond(r, 200, [fileName |-> << "q", "r", "-", "c", "o", "d", "e", ".", "p", "n", "g" >>,
                             mimeType |-> "image/png",
                             dataUrl |-> DataUrl("image/png", toBase64(png)),
                             originalUrl |-> req[r].body.url.s])
       \/ \E err \in EncoderErrors :
            Respond(r, 500, FailBody("QR code generation failed", err))
    /\ Goto(r, "done")
    /\ UNCHANGED << live, staging, req, loc, proc, unlinks, reads >>

\* --------------------------------------------------- POST /api/calc/bmi
NaN == [t |-> "NaN", s |-> <<>>, n |-> 0]

Digits == << "0", "1", "2", "3", "4", "5", "6", "7", "8", "9" >>
IsDigit(c) == \E d \in 1..Len(Digits) : Digits[d] = c
DigitValue(c) == (CHOOSE d \in 1..Len(Digits) : Digits[d] = c) - 1

RECURSIVE DecimalValue(_)
DecimalValue(s) ==
    IF s = <<>> THEN 0
    ELSE 10 * DecimalValue(SubSeq(s, 1, Len(s) - 1)) + DigitValue(s[Len(s)])

\* Number(v): undefined gives NaN, null 0, a boolean 0 or 1, the empty
\* string 0, a string of decimal digits its value, any other string of the
\* model NaN, and an array [k] the number of its string "k"
Number(v) ==
    CASE v.t = "number" -> v
      [] v.t = "null" -> JNum(0)
      [] v.t = "boolean" -> JNum(v.n)
      [] v.t = "array" -> JNum(v.n)
      [] v.t = "string" ->
            IF \A i \in 1..Len(v.s) : IsDigit(v.s[i]) THEN JNum(DecimalValue(v.s)) ELSE NaN
      [] OTHER -> NaN

\* ------------------------------------------- IEEE 754 double arithmetic
\* JavaScript numbers are binary64. A natural number is a sequence of bits,
\* least significant first, without leading zeros (<<>> is 0); a positive
\* double is [m, e] with a 53-bit mantissa m and the value m * 2^e.
MantissaBits == 53

RECURSIVE BitsOf(_)
BitsOf(n) == IF n = 0 THEN <<>> ELSE << n % 2 >> \o BitsOf(n \div 2)

RECURSIVE IntOf(_)
IntOf(b) == IF b = <<>> THEN 0 ELSE b[1] + 2 * IntOf(Tail(b))

RECURSIVE TopBit(_, _, _)
\* the highest index in lo..hi holding a 1, or 0
TopBit(b, lo, hi) ==
    IF lo > hi THEN 0
    ELSE IF lo = hi THEN (IF b[lo] = 1 THEN lo ELSE 0)
    ELSE LET mid == (lo + hi) \div 2
             upper == TopBit(b, mid + 1, hi)
         IN  IF upper # 0 THEN upper ELSE TopBit(b, lo, mid)
StripZeros(b) == SubSeq(b, 1, TopBit(b, 1, Len(b)))

Zeros(k) == [i \in 1..k |-> 0]
ShiftLeft(b, k) == IF b = <<>> THEN <<>> ELSE Zeros(k) \o b
ShiftRight(b, k) == IF k >= Len(b) THEN <<>> ELSE SubSeq(b, k + 1, Len(b))
BitAt(b, i) == IF i >= 1 /\ i <= Len(b) THEN b[i] ELSE 0

RECURSIVE AddRange(_, _, _, _, _)
\* bits lo..hi of a + b + c, and the carry out of bit hi
AddRange(a, b, lo, hi, c) ==
    IF lo = hi
    THEN LET t == BitAt(a, lo) + BitAt(b, lo) + c
         IN  [bits |-> << t % 2 >>, carry |-> t \div 2]
    ELSE LET mid == (lo + hi) \div 2
             lower == AddRange(a, b, lo, mid, c)
             upper == AddRange(a, b, mid + 1, hi, lower.carry)
         IN  [bits |-> lower.bits \o upper.bits, carry |-> upper.carry]
BigAdd(a, b) ==
    LET n == IF Len(a) > Len(b) THEN Len(a) ELSE Len(b)
        sum == AddRange(a, b, 1, n, 0)
    IN  IF n = 0 THEN <<>>
        ELSE IF sum.carry = 1 THEN sum.bits \o << 1 >> ELSE sum.bits

RECURSIVE SubRange(_, _, _, _, _)
\* bits lo..hi of a - b - c, and the borrow out of bit hi
SubRange(a, b, lo, hi, c) ==
    IF lo = hi
    THEN LET t == BitAt(a, lo) - BitAt(b, lo) - c
         IN  [bits |-> << (t + 2) % 2 >>, carry |-> IF t < 0 THEN 1 ELSE 0]
    ELSE LET mid == (lo + hi) \div 2
             lower == SubRange(a, b, lo, mid, c)
             upper == SubRange(a, b, mid + 1, hi, lower.carry)
         IN  [bits |-> lower.bits \o upper.bits, carry |-> upper.carry]
\* a - b for a >= b
BigSub(a, b) ==
    IF a = <<>> THEN <<>> ELSE StripZeros(SubRange(a, b, 1, Len(a), 0).bits)

RECURSIVE TopDifference(_, _, _, _)
\* the highest index in lo..hi where a and b differ, or 0
TopDifference(a, b, lo, hi) ==
    IF lo > hi THEN 0
    ELSE IF lo = hi THEN (IF a[lo] # b[lo] THEN lo ELSE 0)
    ELSE LET mid == (lo + hi) \div 2
             upper == TopDifference(a, b, mid + 1, hi)
         IN  IF upper # 0 THEN upper ELSE TopDifference(a, b, lo, mid)
BigLess(a, b) ==
    IF Len(a) # Len(b) THEN Len(a) < Len(b)
    ELSE LET d == TopDifference(a, b, 1, Len(a))
         IN  d # 0 /\ a[d] < b[d]

RECURSIVE MulRange(_, _, _, _)
\* a times the number made of bits lo..hi of b, left in place
MulRange(a, b, lo, hi) ==
    IF lo = hi THEN (IF b[lo] = 1 THEN ShiftLeft(a, lo - 1) ELSE <<>>)
    ELSE LET mid == (lo + hi) \div 2
         IN  BigAdd(MulRange(a, b, lo, mid), MulRange(a, b, mid + 1, hi))
BigMul(a, b) ==
    IF a = <<>> \/ b = <<>> THEN <<>> ELSE MulRange(a, b, 1, Len(b))

RECURSIVE DivRange(_, _, _, _, _)
\* long division: brings down bits hi..lo of a onto the remainder r and
\* yields the quotient digits produced, highest first, with the new remainder
DivRange(a, b, hi, lo, r) ==
    IF lo = hi
    THEN LET r2 == StripZeros(<< a[lo] >> \o r)
         IN  IF BigLess(r2, b) THEN [q |-> << 0 >>, r |-> r2]
             ELSE [q |-> << 1 >>, r |-> BigSub(r2, b)]
    ELSE LET mid == (lo + hi) \div 2
             upper == DivRange(a, b, hi, mid + 1, r)
             lower == DivRange(a, b, mid, lo, upper.r)
         IN  [q |-> upper.q \o lower.q, r |-> lower.r]
Reverse(s) == [i \in 1..Len(s) |-> s[Len(s) + 1 - i]]
BigDivMod(a, b) ==
    IF a = <<>> THEN [q |-> <<>>, r |-> <<>>]
    ELSE LET d == DivRange(a, b, Len(a), 1, <<>>)
         IN  [q |-> StripZeros(Reverse(d.q)), r |-> d.r]

\* round-to-nearest, ties-to-even, of n * 2^e (plus something below the last
\* bit of n when sticky) to a 53-bit mantissa
RoundToDouble(n, e, sticky) ==
    IF Len(n) <= MantissaBits
    THEN [m |-> ShiftLeft(n, MantissaBits - Len(n)), e |-> e - (MantissaBits - Len(n))]
    ELSE LET d == Len(n) - MantissaBits
             kept == ShiftRight(n, d)
             guard == n[d]
             below == sticky \/ (\E i \in 1..(d - 1) : n[i] = 1)
             up == guard = 1 /\ (below \/ kept[1] = 1)
             m == IF up THEN BigAdd(kept, << 1 >>) ELSE kept
         IN  IF Len(m) > MantissaBits
             THEN [m |-> ShiftRight(m, 1), e |-> e + d + 1]
             ELSE [m |-> m, e |-> e + d]

\* the double nearest to (a * 2^ea) / (b * 2^eb), a and b naturals
QuotientToDouble(a, ea, b, eb) ==
    LET k == IF Len(b) + MantissaBits + 2 > Len(a)
             THEN Len(b) + MantissaBits + 2 - Len(a) ELSE 0
        qr == BigDivMod(ShiftLeft(a, k), b)
    IN  RoundToDouble(qr.q, ea - eb - k, qr.r # <<>>)

\* x / y and x * y on doubles
DoubleDiv(x, y) == QuotientToDouble(x.m, x.e, y.m, y.e)
DoubleMul(x, y) == RoundToDouble(BigMul(x.m, y.m), x.e + y.e, FALSE)

\* the double of a positive integer below 2^53
DoubleOf(n) == RoundToDouble(BitsOf(n), 0, FALSE)

\* x < num / den for a double x and positive integers num, den
DoubleLess(x, num, den) ==
    LET lhs == BigMul(x.m, BitsOf(den))
        rhs == BitsOf(num)
    IN  IF x.e >= 0 THEN BigLess(ShiftLeft(lhs, x.e), rhs)
        ELSE BigLess(lhs, ShiftLeft(rhs, -x.e))

\* Number(x.toFixed(2)) in hundredths: the integer n with n / 100 closest
\* to the exact value of x, the larger one on a tie
toFixed2(x) ==
    LET scaled == BigMul(x.m, BitsOf(200))
    IN  IF x.e >= 0 THEN IntOf(ShiftLeft(scaled, x.e)) \div 2
        ELSE IntOf(ShiftRight(BigAdd(scaled, ShiftLeft(<< 1 >>, -x.e)), 1 - x.e))

\* const heightM = h / 100; const bmi = w / (heightM * heightM)
BmiOf(h, w) ==
    LET heightM == DoubleDiv(DoubleOf(h), DoubleOf(100))
    IN  DoubleDiv(DoubleOf(w), DoubleMul(heightM, heightM))

\* the if / else-if chain on bmi < 18.5, bmi < 25, bmi < 30
BmiCategory(bmi) ==
    IF DoubleLess(bmi, 37, 2) THEN "Underweight"
    ELSE IF DoubleLess(bmi, 25, 1) THEN "Normal"
    ELSE IF DoubleLess(bmi, 30, 1) THEN "Overweight"
    ELSE "Obesity"

\* Number(bmi.toFixed(2)), in hundredths
BmiRounded(bmi) == toFixed2(bmi)

\* lines 325-345 evaluated once for every pair of numbers the bodies of
\* the model coerce to
AcceptedNumbers(values) ==
    { Number(v).n : v \in { u \in values : Number(u).t = "number" /\ Number(u).n > 0 } }
BmiTable ==
    { LET bmi == BmiOf(h, w)
      IN  [h |-> h, w |-> w, bmi |-> BmiRounded(bmi), category |-> BmiCategory(bmi)] :
        h \in AcceptedNumbers(Heights), w \in AcceptedNumbers(Weights) }
BmiAnswer(h, w) == CHOOSE a \in BmiTable : a.h = h /\ a.w = w

BmiRanges == [Underweight |-> "< 18.5", Normal |-> "18.5 - 24.9",
              Overweight |-> "25 - 29.9", Obesity |-> ">= 30"]

Bmi(r) ==
    /\ pc[r] = "start"
    /\ req[r].route = "calc/bmi"
    /\ LET h == Number(req[r].body.heightCm)
           w == Number(req[r].body.weightKg)
       IN  IF Falsy(h) \/ Falsy(w) \/ h.n <= 0 \/ w.n <= 0
           THEN Respond(r, 400, ErrorBody("heightCm and weightKg must be positive numbers"))
           ELSE LET answer == BmiAnswer(h.n, w.n) IN
                Respond(r, 200, [bmi |-> answer.bmi,
                                 category |-> answer.category,
                                 message |-> << "advice", answer.category >>,
                                 ranges |-> BmiRanges])
    /\ Goto(r, "done")
    /\ UNCHANGED << live, staging, req, loc, proc, unlinks, reads >>

\* ---------------------------------------------- POST /api/audio/convert
allowedInputTypes ==
    { "audio/flac", "audio/x-flac", "audio/aac", "audio/x-aac", "audio/wav",
      "audio/x-wav", "audio/ogg", "audio/x-ogg", "audio/alac" }
\* an output allow-list that repeats the flac of the input allow-list
allowedOutputFormats_withFlac ==
    { Fmt_mp3, Fmt_aac, Fmt_wav, Fmt_ogg, << "f", "l", "a", "c" >> }

allowedOutputFormats == { Fmt_mp3, Fmt_aac, Fmt_wav, Fmt_ogg }

\* const { targetFormat = "mp3", bitrate = "192k" } = req.body || {}
TargetFormatOf(body) ==
    IF body.targetFormat.t = "undefined" THEN Fmt_mp3 ELSE body.targetFormat.s
BitrateOf(body) ==
    IF body.bitrate.t = "undefined" THEN << "1", "9", "2", "k" >> ELSE body.bitrate.s

\* String(targetFormat).toLowerCase()
SafeFormat(body) == toLowerCase(TargetFormatOf(body))

\* codec arguments that pass the bitrate for wav too
formatArgs_wavWithBitrate(safeFormat, bitrate) ==
    IF safeFormat = Fmt_mp3 THEN << << "-codec:a" >>, << "libmp3lame" >>, << "-b:a" >>, bitrate >>
    ELSE IF safeFormat = Fmt_aac THEN << << "-codec:a" >>, << "aac" >>, << "-b:a" >>, bitrate >>
    ELSE IF safeFormat = Fmt_wav THEN << << "-codec:a" >>, << "pcm_s16le" >>, << "-b:a" >>, bitrate >>
    ELSE IF safeFormat = Fmt_ogg THEN << << "-codec:a" >>, << "libvorbis" >>, << "-b:a" >>, bitrate >>
    ELSE <<>>

formatArgs(safeFormat, bitrate) ==
    IF safeFormat = Fmt_mp3 THEN << << "-codec:a" >>, << "libmp3lame" >>, << "-b:a" >>, bitrate >>
    ELSE IF safeFormat = Fmt_aac THEN << << "-codec:a" >>, << "aac" >>, << "-b:a" >>, bitrate >>
    ELSE IF safeFormat = Fmt_wav THEN << << "-codec:a" >>, << "pcm_s16le" >> >>
    ELSE IF safeFormat = Fmt_ogg THEN << << "-codec:a" >>, << "libvorbis" >>, << "-b:a" >>, bitrate >>
    ELSE <<>>

ffArgsOf(inputPath, safeFormat, bitrate, outputPath) ==
    << << "-y" >>, << "-i" >>, inputPath, << "-vn" >> >>
        \o formatArgs(safeFormat, bitrate) \o << outputPath >>

AudioMime(safeFormat) ==
    IF safeFormat = Fmt_ogg THEN "audio/ogg"
    ELSE IF safeFormat = Fmt_wav THEN "audio/wav"
    ELSE IF safeFormat = Fmt_aac THEN "audio/aac"
    ELSE "audio/mpeg"

\* from the entry of the handler to its first await; for an accepted request
\* that is the promise around spawn(ffmpegPath, ffArgs)
AudioStart(r) ==
    /\ pc[r] = "start"
    /\ req[r].route = "audio/convert"
    /\ IF req[r].file.path = NoPath
       THEN /\ Respond(r, 400, ErrorBody("No file uploaded"))
            /\ Goto(r, "done")
            /\ UNCHANGED << loc, proc >>
       ELSE LET safeFormat == SafeFormat(req[r].body)
                bitrate == BitrateOf(req[r].body)
            IN  IF safeFormat \notin allowedOutputFormats
                THEN /\ Goto(r, "au_reject_format")
                     /\ UNCHANGED << loc, proc, sent >>
                ELSE IF req[r].file.mimetype \notin allowedInputTypes
                THEN /\ Goto(r, "au_reject_mime")
                     /\ UNCHANGED << loc, proc, sent >>
                ELSE /\ loc' = [loc EXCEPT ![r] =
                            [@ EXCEPT !.outputPath = OutPath(r),
                                      !.safeFormat = safeFormat,
                                      !.bitrate = req[r].body.bitrate,
                                      !.ffArgs = ffArgsOf(req[r].file.path, safeFormat,
                                                          bitrate, OutPath(r))]]
                     /\ proc' = [proc EXCEPT ![r] =
                            [NoProc EXCEPT !.state = "running", !.promise = "pending"]]
                     /\ Goto(r, "au_await")
                     /\ UNCHANGED sent
    /\ UNCHANGED << live, staging, req, unlinks, reads >>

\* await safeUnlink(inputPath); return res.status(400).json(...), before the try
AudioRejectFormat(r) ==
    /\ pc[r] = "au_reject_format"
    /\ \E envFail \in BOOLEAN : AwaitUnlink(r, req[r].file.path, envFail)
    /\ IF Raised(r)
       THEN /\ Goto(r, "unhandled")
            /\ UNCHANGED sent
       ELSE /\ Respond(r, 400, ErrorBody("Invalid target format"))
            /\ Goto(r, "done")
    /\ UNCHANGED << live, req, loc, proc, reads >>

AudioRejectMime(r) ==
    /\ pc[r] = "au_reject_mime"
    /\ \E envFail \in BOOLEAN : AwaitUnlink(r, req[r].file.path, envFail)
    /\ IF Raised(r)
       THEN /\ Goto(r, "unhandled")
            /\ UNCHANGED sent
       ELSE /\ Respond(r, 400, ErrorBody("Unsupported input audio format"))
            /\ Goto(r, "done")
    /\ UNCHANGED << live, req, loc, proc, reads >>

\* ---- the child process (environment) and its listeners
StderrChunks == { << "E", "!" >> }
\* exit codes of the close event: 0, a failure, null (killed by a signal)
ExitCodes == { "0", "1", "null" }
\* after a failed spawn the close event carries the negative errno (0 is
\* kept as the case in which a late close could matter most)
SpawnExitCodes == { "-2", "0" }

\* !code instead of code === 0: a null code counts as success
ExitedOk_falsy(code) == code \in { "0", "null" }

\* code === 0
ExitedOk(code) == code = "0"
SpawnErrors == { [kind |-> "spawn", code |-> "", text |-> << "ENOENT ffmpeg" >>] }

\* a deferred result that every later event overwrites
Settle_lastWins(p, outcome, reason) ==
    [p EXCEPT !.promise = outcome, !.reason = reason]

\* a promise whose executor never calls reject
Settle_resolveOnly(p, outcome, reason) ==
    IF p.promise = "pending" /\ outcome = "resolved"
    THEN [p EXCEPT !.promise = outcome, !.reason = reason]
    ELSE p

\* settling a promise: only the first resolve/reject has an effect
Settle(p, outcome, reason) ==
    IF p.promise = "pending"
    THEN [p EXCEPT !.promise = outcome, !.reason = reason]
    ELSE p

\* ffmpeg writes (part of) its output file
ProcWrite(r) ==
    /\ proc[r].state = "running"
    /\ \E b \in Buffers :
        /\ staging[loc[r].outputPath] # File(b)
        /\ staging' = [staging EXCEPT ![loc[r].outputPath] = File(b)]
    /\ UNCHANGED << live, req, pc, loc, proc, sent, unlinks, reads >>

\* proc.stderr.on("data", chunk => { stderr += chunk.toString() })
ProcStderr(r) ==
    /\ proc[r].state = "running"
    /\ Len(proc[r].events) < MaxChunks
    /\ \E chunk \in StderrChunks :
        proc' = [proc EXCEPT ![r].stderr = @ \o chunk,
                             ![r].events = Append(@, [e |-> "data", chunk |-> chunk])]
    /\ UNCHANGED << live, staging, req, pc, loc, sent, unlinks, reads >>

\* proc.on("error", err => reject(err)): the process could not be spawned
ProcError(r) ==
    /\ proc[r].state = "running"
    /\ proc[r].stderr = <<>>
    /\ ~staging[loc[r].outputPath].exists
    /\ \E err \in SpawnErrors :
        proc' = [proc EXCEPT ![r] = [Settle(@, "rejected", err)
                                        EXCEPT !.state = "errored",
                                               !.events = Append(@, [e |-> "error", chunk |-> <<>>])]]
    /\ UNCHANGED << live, staging, req, pc, loc, sent, unlinks, reads >>

\* proc.on("close", code => code === 0 ? resolve() : reject(new Error(...)))
ProcClose(r) ==
    /\ proc[r].state \in { "running", "errored" }
    /\ \E code \in (IF proc[r].state = "errored" THEN SpawnExitCodes ELSE ExitCodes) :
        proc' = [proc EXCEPT ![r] =
              [ (IF ExitedOk(code)
                 THEN Settle(@, "resolved", NoMessage)
                 ELSE Settle(@, "rejected",
                        [kind |-> "ffmpeg exited with code", code |-> code,
                         text |-> proc[r].stderr]))
                EXCEPT !.state = "closed", !.code = code,
                       !.events = Append(@, [e |-> "close", chunk |-> <<>>]) ]]
    /\ UNCHANGED << live, staging, req, pc, loc, sent, unlinks, reads >>

\* an await that gives up on a promise that is still pending
AudioResume_timeout(r) ==
    /\ pc[r] = "au_await"
    /\ IF proc[r].promise = "resolved"
       THEN /\ Goto(r, "au_read")
            /\ UNCHANGED sent
       ELSE /\ Respond(r, 500, FailBody("Audio conversion failed", proc[r].reason))
            /\ Goto(r, "au_finally_in")
    /\ UNCHANGED << live, staging, req, loc, proc, unlinks, reads >>

\* the await on the promise returns or throws
AudioResume(r) ==
    /\ pc[r] = "au_await"
    /\ proc[r].promise \in { "resolved", "rejected" }
    /\ IF proc[r].promise = "resolved"
       THEN /\ Goto(r, "au_read")
            /\ UNCHANGED sent
       ELSE /\ Respond(r, 500, FailBody("Audio conversion failed", proc[r].reason))
            /\ Goto(r, "au_finally_in")
    /\ UNCHANGED << live, staging, req, loc, proc, unlinks, reads >>

\* await readFileAsync(outputPath), then the envelope
AudioRead(r) ==
    /\ pc[r] = "au_read"
    /\ reads' = [reads EXCEPT ![r] = Append(@, loc[r].outputPath)]
    /\ \E envFail \in BOOLEAN :
        LET rd == ReadResult(staging, loc[r].outputPath, envFail)
            convertedBuffer == rd.buf
            safeFormat == loc[r].safeFormat
        IN  IF rd.ok
            THEN /\ loc' = [loc EXCEPT ![r].out = convertedBuffer]
                 /\ Respond(r, 200,
                      fileToDataUrlResponse(convertedBuffer, AudioMime(safeFormat),
                          replaceAnyExt(req[r].file.originalname, << "." >> \o safeFormat),
                          [targetFormat |-> safeFormat,
                           bitrate |-> BitrateOf(req[r].body),
                           size |-> Len(convertedBuffer)]))
            ELSE /\ Respond(r, 500, FailBody("Audio conversion failed", rd.err))
                 /\ UNCHANGED loc
    /\ Goto(r, "au_finally_in")
    /\ UNCHANGED << live, staging, req, proc, unlinks >>

\* finally { await safeUnlink(inputPath); ...
AudioFinallyInput(r) ==
    /\ pc[r] = "au_finally_in"
    /\ \E envFail \in BOOLEAN : AwaitUnlink(r, req[r].file.path, envFail)
    /\ Goto(r, IF Raised(r) THEN "unhandled" ELSE "au_finally_out")
    /\ UNCHANGED << live, req, loc, proc, sent, reads >>

\* the finally block without its second removal
AudioFinallyOutput_skipped(r) ==
    /\ pc[r] = "au_finally_out"
    /\ Goto(r, "done")
    /\ UNCHANGED << live, staging, req, loc, proc, sent, unlinks, reads >>

\* ... await safeUnlink(outputPath).catch(() => {}) }
AudioFinallyOutput(r) ==
    /\ pc[r] = "au_finally_out"
    /\ \E envFail \in BOOLEAN : AwaitUnlink(r, loc[r].outputPath, envFail)
    /\ Goto(r, "done")
    /\ UNCHANGED << live, req, loc, proc, sent, reads >>

\* ------------------------------------------------------ specification
Next ==
    \E r \in Reqs :
        \/ Receive(r)
        \/ Health(r)
        \/ DocStart(r) \/ DocReject(r) \/ DocRead(r) \/ DocConvert(r) \/ DocFinally(r)
        \/ ImgStart(r) \/ ImgReject(r) \/ ImgSharp(r) \/ ImgFinally(r)
        \/ QrStart(r) \/ QrEncode(r)
        \/ Bmi(r)
        \/ AudioStart(r) \/ AudioRejectFormat(r) \/ AudioRejectMime(r)
        \/ ProcWrite(r) \/ ProcStderr(r) \/ ProcError(r) \/ ProcClose(r)
        \/ AudioResume(r) \/ AudioRead(r)
        \/ AudioFinallyInput(r) \/ AudioFinallyOutput(r)

Spec == Init /\ [][Next]_vars

\* the steps of the handler of request r (the continuations the event loop runs)
HandlerStep(r) ==
    \/ Health(r)
    \/ DocStart(r) \/ DocReject(r) \/ DocRead(r) \/ DocConvert(r) \/ DocFinally(r)
    \/ ImgStart(r) \/ ImgReject(r) \/ ImgSharp(r) \/ ImgFinally(r)
    \/ QrStart(r) \/ QrEncode(r)
    \/ Bmi(r)
    \/ AudioStart(r) \/ AudioRejectFormat(r) \/ AudioRejectMime(r)
    \/ AudioResume(r) \/ AudioRead(r)
    \/ AudioFinallyInput(r) \/ AudioFinallyOutput(r)

\* the event loop runs every ready continuation, every file operation and
\* in-process collaborator completes or fails, and the child process closes
Fairness == \A r \in Reqs : WF_vars(HandlerStep(r)) /\ WF_vars(ProcClose(r))

LiveSpec == Init /\ [][Next]_vars /\ Fairness

\* two requests in flight at once: request 1 converts audio with a
\* transcoder that writes no diagnostics, request 2 converts a document or
\* compresses an image
ConcUploads(r) ==
    IF r = 1
    THEN { [route |-> "audio/convert",
            file |-> [path |-> InPath(r), originalname |-> << "s", ".", "f", "l", "a", "c" >>,
                      mimetype |-> "audio/flac", size |-> 1],
            body |-> NoBody] }
    ELSE { [route |-> route,
            file |-> [path |-> InPath(r), originalname |-> n,
                      mimetype |-> "image/jpeg", size |-> 2],
            body |-> NoBody] :
            route \in { "docx-to-pdf", "image/compress" },
            n \in { << "a", ".", "d", "o", "c", "x" >>, << "a", ".", "p", "d", "f" >> } }

ConcReceive(r) ==
    /\ pc[r] = "idle"
    /\ r \in live
    /\ \E q \in ConcUploads(r) :
        /\ req' = [req EXCEPT ![r] = q]
        /\ staging' = [staging EXCEPT ![q.file.path] =
                          File(IF q.file.size = 1 THEN << 77 >> ELSE << 0, 255 >>)]
    /\ pc' = [pc EXCEPT ![r] = "start"]
    /\ UNCHANGED << live, loc, proc, sent, unlinks, reads >>

ConcNext ==
    \E r \in Reqs :
        \/ ConcReceive(r)
        \/ DocStart(r) \/ DocReject(r) \/ DocRead(r) \/ DocConvert(r) \/ DocFinally(r)
        \/ ImgStart(r) \/ ImgSharp(r) \/ ImgFinally(r)
        \/ AudioStart(r)
        \/ ProcWrite(r) \/ ProcError(r) \/ ProcClose(r)
        \/ AudioResume(r) \/ AudioRead(r)
        \/ AudioFinallyInput(r) \/ AudioFinallyOutput(r)

ConcSpec == InitWith({1, 2}) /\ [][ConcNext]_vars

TypeOK ==
    /\ \A r \in Reqs : pc[r] \in { "idle", "start", "done", "unhandled",
            "doc_reject", "doc_read", "doc_convert", "doc_finally",
            "img_reject", "img_sharp", "img_finally", "qr_encode",
            "au_reject_format", "au_reject_mime", "au_await", "au_read",
            "au_finally_in", "au_finally_out" }
    /\ \A p \in Paths : staging[p].exists \in BOOLEAN

\* ================================================================ claims
Finished(r) == pc[r] \in { "done", "unhandled" }
Staged(r) == req[r].route \in FileRoutes /\ req[r].file.path # NoPath
Exists(p) == staging[p].exists

AttemptsOn(r, p) == { i \in 1..Len(unlinks[r]) : unlinks[r][i].path = p }
LastAttemptFailed(r, p) ==
    /\ AttemptsOn(r, p) # {}
    /\ LET last == CHOOSE i \in AttemptsOn(r, p) : \A j \in AttemptsOn(r, p) : j <= i
       IN  ~unlinks[r][last].ok
Removed(r, p) == \E i \in AttemptsOn(r, p) : unlinks[r][i].ok

\* C1 (as stated): once the handler of a request with a staged upload has
\* finished, the staged input file no longer exists, and for audio/convert
\* the allocated output file does not exist either.
C1_NoFilesRemain ==
    \A r \in Reqs :
        Finished(r) /\ Staged(r) =>
            /\ ~Exists(InPath(r))
            /\ req[r].route = "audio/convert" => ~Exists(OutPath(r))

\* C1 (amended): once the handler of a request with a staged upload has
\* finished, the staged input file no longer exists unless the last removal
\* attempted on it failed, and likewise the output file of audio/convert,
\* also when the transcoder left a partial output before exiting non-zero.
C1_NoFilesRemainUnlessRemovalFailed ==
    \A r \in Reqs :
        Finished(r) /\ Staged(r) =>
            /\ Exists(InPath(r)) => LastAttemptFailed(r, InPath(r))
            /\ req[r].route = "audio/convert" /\ Exists(OutPath(r))
                   => LastAttemptFailed(r, OutPath(r))

\* an audio request whose transcoder wrote a partial output and exited 1 has
\* finished, and both of its files were removed
C1_Witness ==
    \E r \in Reqs :
        /\ pc[r] = "done" /\ req[r].route = "audio/convert"
        /\ proc[r].code = "1" /\ proc[r].events[Len(proc[r].events)].e = "close"
        /\ Removed(r, OutPath(r)) /\ Removed(r, InPath(r))
        /\ ~Exists(InPath(r)) /\ ~Exists(OutPath(r))

\* C2: for every staged upload there is exactly one call of safeUnlink on its
\* path over the whole request, on every path.
C2_ExactlyOneRemovalAttempt ==
    \A r \in Reqs :
        Finished(r) /\ Staged(r) => Cardinality(AttemptsOn(r, InPath(r))) = 1

\* C3: every file-bearing request that has been dispatched to its strategy
\* eventually reaches Cleaned: a response was sent and the finalization step
\* attempted the removal of the staged input (and of the audio output path).
Dispatched(r) == pc[r] \in { "doc_read", "doc_convert", "img_sharp", "au_await", "au_read" }
Cleaned(r) ==
    /\ pc[r] = "done"
    /\ Len(sent[r]) >= 1
    /\ AttemptsOn(r, InPath(r)) # {}
    /\ req[r].route = "audio/convert" => AttemptsOn(r, OutPath(r)) # {}

C3_DispatchedLeadsToCleaned == \A r \in Reqs : Dispatched(r) ~> Cleaned(r)

\* a dispatched audio request whose transcoder failed was answered 500 and cleaned
C3_Witness ==
    \E r \in Reqs :
        /\ Cleaned(r) /\ req[r].route = "audio/convert"
        /\ proc[r].promise = "rejected"
        /\ sent[r][1].status = 500

Responses(r) == { sent[r][i] : i \in 1..Len(sent[r]) }
ReadPaths(r) == { reads[r][i] : i \in 1..Len(reads[r]) }
Events(r) == { proc[r].events[i].e : i \in 1..Len(proc[r].events) }

RECURSIVE ChunksOf(_)
\* the text of the data events of a sequence of events, in their order
ChunksOf(events) ==
    IF events = <<>> THEN <<>>
    ELSE events[1].chunk \o ChunksOf(Tail(events))

\* the validation faults of a request, from its inputs
ValidationFault(r) ==
    LET q == req[r] IN
    CASE q.route \in DocRoutes ->
            \/ q.file.path = NoPath
            \/ toLowerCase(extname(q.file.originalname)) #
                   (IF q.route = "docx-to-pdf" THEN << ".", "d", "o", "c", "x" >>
                    ELSE << ".", "p", "d", "f" >>)
      [] q.route = "image/compress" ->
            \/ q.file.path = NoPath
            \/ q.file.mimetype \notin { "image/jpeg", "image/png", "image/webp" }
      [] q.route = "url/qr" -> q.body.url.t # "string" \/ q.body.url.s = <<>>
      [] q.route = "audio/convert" ->
            \/ q.file.path = NoPath
            \/ toLowerCase(TargetFormatOf(q.body)) \notin { Fmt_mp3, Fmt_aac, Fmt_wav, Fmt_ogg }
            \/ q.file.mimetype \notin allowedInputTypes
      [] q.route = "calc/bmi" ->
            \/ Number(q.body.heightCm).t = "NaN" \/ Number(q.body.heightCm).n <= 0
            \/ Number(q.body.weightKg).t = "NaN" \/ Number(q.body.weightKg).n <= 0
      [] OTHER -> FALSE

ValidationMessages ==
    { "No file uploaded", "Only .docx files are allowed", "Only .pdf files are allowed",
      "Only JPEG, PNG, or WebP images are allowed", "URL is required",
      "Invalid target format", "Unsupported input audio format",
      "heightCm and weightKg must be positive numbers" }
FailureMessages ==
    { "Conversion failed", "Image compression failed", "QR code generation failed",
      "Audio conversion failed" }
StrategyFaultKinds ==
    { "engine", "codec", "qrcode", "spawn", "ffmpeg exited with code", "ENOENT", "EIO" }

\* C4: every request ends in a JSON response whose status is fixed by the
\* fault class: a validation fault always yields 400, a strategy fault is
\* caught and yields 500 with an error string and the fault's message in
\* details, and no fault leaves the handler unhandled.
C4_StatusByFaultClass ==
    \A r \in Reqs :
        /\ pc[r] # "unhandled"
        /\ Finished(r) => Len(sent[r]) >= 1
        /\ Finished(r) /\ ValidationFault(r) => sent[r][1].status = 400
        /\ \A m \in Responses(r) :
            /\ m.status \in { 200, 400, 500 }
            /\ m.status = 400 =>
                /\ ValidationFault(r)
                /\ DOMAIN m.body = { "error" }
                /\ m.body.error \in ValidationMessages
            /\ m.status = 500 =>
                /\ ~ValidationFault(r)
                /\ DOMAIN m.body = { "error", "details" }
                /\ m.body.error \in FailureMessages
                /\ m.body.details.kind \in StrategyFaultKinds
            /\ m.status = 200 => ~ValidationFault(r) /\ "error" \notin DOMAIN m.body
        /\ req[r].route = "audio/convert" /\ proc[r].promise = "rejected" /\ Finished(r)
               => sent[r][1] = [status |-> 500,
                                body |-> [error |-> "Audio conversion failed",
                                          details |-> proc[r].reason]]

\* the image codec failed on an accepted upload and the request was answered 500
C4_Witness ==
    \E r \in Reqs :
        /\ pc[r] = "done" /\ req[r].route = "image/compress"
        /\ Len(sent[r]) = 1 /\ sent[r][1].status = 500
        /\ sent[r][1].body.details.kind = "codec"

\* C5: in audio/convert a target format (lower-cased) outside mp3, aac, wav,
\* ogg is answered 400 "Invalid target format" whatever the MIME type, an
\* allowed format with a MIME type outside the input allow-list is answered
\* 400 "Unsupported input audio format", and in both cases no output path is
\* allocated and the transcoder is never spawned.
AudioRejection(r, text) ==
    /\ loc[r].outputPath = NoPath
    /\ proc[r].state = "none"
    /\ reads[r] = <<>>
    /\ sent[r] \in { <<>>, << [status |-> 400, body |-> [error |-> text]] >> }
    /\ Finished(r) => Len(sent[r]) = 1

C5_AudioValidation ==
    \A r \in Reqs :
        req[r].route = "audio/convert" /\ Staged(r) =>
            LET formatOk == toLowerCase(TargetFormatOf(req[r].body))
                                \in { Fmt_mp3, Fmt_aac, Fmt_wav, Fmt_ogg }
                mimeOk == req[r].file.mimetype \in allowedInputTypes
            IN  /\ ~formatOk => AudioRejection(r, "Invalid target format")
                /\ formatOk /\ ~mimeOk => AudioRejection(r, "Unsupported input audio format")

\* targetFormat "FLAC" with an allowed audio/flac upload was answered 400
C5_Witness ==
    \E r \in Reqs :
        /\ pc[r] = "done" /\ req[r].route = "audio/convert"
        /\ req[r].body.targetFormat = JStr(<< "F", "L", "A", "C" >>)
        /\ req[r].file.mimetype = "audio/flac"
        /\ sent[r] = << [status |-> 400, body |-> [error |-> "Invalid target format"]] >>

\* C6 (as stated): the output file is read and an envelope returned only
\* when the process closed with code 0, and then size is the length of the
\* buffer read; when it closes with any other code no envelope is returned,
\* the output path is never read and the details of the 500 response carry
\* that exit code followed by the stderr text accumulated up to the close.
EnvelopeOnlyAfterExit0(r) ==
    /\ OutPath(r) \in ReadPaths(r) => proc[r].code = "0"
    /\ \A m \in Responses(r) :
          m.status = 200 =>
            /\ proc[r].code = "0"
            /\ m.body.size = Len(loc[r].out)
            /\ pc[r] = "au_finally_in" =>
                 /\ Exists(OutPath(r))
                 /\ m.body.size = Len(staging[OutPath(r)].data)

ExitCodeReported(r) ==
    /\ OutPath(r) \notin ReadPaths(r)
    /\ \A m \in Responses(r) :
          /\ m.status = 500
          /\ m.body.details = [kind |-> "ffmpeg exited with code",
                               code |-> proc[r].code, text |-> ChunksOf(proc[r].events)]
    /\ Finished(r) => Len(sent[r]) = 1

C6_ExitCodeDecides ==
    \A r \in Reqs :
        req[r].route = "audio/convert" =>
            /\ EnvelopeOnlyAfterExit0(r)
            /\ proc[r].state = "closed" /\ proc[r].code # "0" => ExitCodeReported(r)

\* C6 (amended): as stated, except that the details carry the exit code and
\* the stderr text only when no 'error' event preceded the close; after an
\* 'error' event the response carries the system error message instead.
C6_ExitCodeDecidesUnlessSpawnError ==
    \A r \in Reqs :
        req[r].route = "audio/convert" =>
            /\ EnvelopeOnlyAfterExit0(r)
            /\ OutPath(r) \in ReadPaths(r) => "error" \notin Events(r)
            /\ proc[r].state = "closed" /\ proc[r].code # "0" =>
                 /\ OutPath(r) \notin ReadPaths(r)
                 /\ \A m \in Responses(r) : m.status = 500
                 /\ "error" \notin Events(r) => ExitCodeReported(r)

\* the transcoder was killed by a signal after writing to stderr, and the
\* request was answered 500 with the null code and the stderr text
C6_Witness ==
    \E r \in Reqs :
        /\ pc[r] = "done" /\ req[r].route = "audio/convert"
        /\ proc[r].code = "null" /\ "error" \notin Events(r)
        /\ Len(proc[r].events) = 3
        /\ sent[r][1].status = 500
        /\ sent[r][1].body.details.code = "null"
        /\ sent[r][1].body.details.text = << "E", "!", "E", "!" >>

\* C7: the outcome of the transcoder invocation is fixed by the first of the
\* 'error' and 'close' events and is settled at most once: after an 'error'
\* the request fails with 500 carrying the system error message, and a later
\* 'close' with any code changes nothing, sends no second response and does
\* not cause the output file to be read.
FirstSettlingEvent(r) ==
    LET e == SelectSeq(proc[r].events, LAMBDA x : x.e # "data")
    IN  IF e = <<>> THEN "none" ELSE e[1].e

C7_FirstEventSettles ==
    \A r \in Reqs :
        req[r].route = "audio/convert" =>
            /\ FirstSettlingEvent(r) = "none" => proc[r].promise \in { "none", "pending" }
            /\ FirstSettlingEvent(r) = "error" =>
                /\ proc[r].promise = "rejected"
                /\ proc[r].reason.kind = "spawn"
                /\ OutPath(r) \notin ReadPaths(r)
                /\ Len(sent[r]) <= 1
                /\ \A m \in Responses(r) :
                      m = [status |-> 500,
                           body |-> [error |-> "Audio conversion failed",
                                     details |-> [kind |-> "spawn", code |-> "",
                                                  text |-> << "ENOENT ffmpeg" >>]]]
                /\ Finished(r) => Len(sent[r]) = 1
            /\ FirstSettlingEvent(r) = "close" =>
                /\ proc[r].promise = (IF proc[r].code = "0" THEN "resolved" ELSE "rejected")
                /\ proc[r].promise = "rejected" => proc[r].reason.code = proc[r].code

\* 'error' came first, the request was answered 500, and 'close' with code 0
\* arrived afterwards
C7_Witness ==
    \E r \in Reqs :
        /\ pc[r] = "done" /\ req[r].route = "audio/convert"
        /\ Len(proc[r].events) = 2
        /\ proc[r].events[1].e = "error" /\ proc[r].events[2].e = "close"
        /\ proc[r].code = "0"
        /\ Len(sent[r]) = 1 /\ sent[r][1].status = 500

\* C8: a failure to remove a temporary file is never visible to the client:
\* safeUnlink never raises, the response and the handler's next position
\* after a removal attempt do not depend on its outcome, and every finished
\* request with a staged upload has attempted the removal (also of the audio
\* output path, which may not exist).
RejectPositions == { "doc_reject", "img_reject", "au_reject_format", "au_reject_mime" }
RejectionAt(r) ==
    CASE pc[r] = "doc_reject" ->
            IF req[r].route = "docx-to-pdf" THEN "Only .docx files are allowed"
            ELSE "Only .pdf files are allowed"
      [] pc[r] = "img_reject" -> "Only JPEG, PNG, or WebP images are allowed"
      [] pc[r] = "au_reject_format" -> "Invalid target format"
      [] pc[r] = "au_reject_mime" -> "Unsupported input audio format"
      [] OTHER -> ""
AfterRemoval(position) ==
    CASE position = "doc_reject" -> "doc_finally"
      [] position = "img_reject" -> "img_finally"
      [] position = "au_finally_in" -> "au_finally_out"
      [] OTHER -> "done"

C8_RemovalAttempted ==
    \A r \in Reqs :
        /\ pc[r] # "unhandled"
        /\ \A i \in 1..Len(unlinks[r]) : ~unlinks[r][i].raised
        /\ Finished(r) /\ Staged(r) =>
            /\ AttemptsOn(r, InPath(r)) # {}
            /\ loc[r].outputPath # NoPath => AttemptsOn(r, loc[r].outputPath) # {}

C8_OutcomeIgnored ==
    \A r \in Reqs :
        unlinks'[r] # unlinks[r] =>
            /\ pc'[r] = AfterRemoval(pc[r])
            /\ sent'[r] = IF pc[r] \in RejectPositions
                          THEN Append(sent[r], [status |-> 400,
                                                body |-> [error |-> RejectionAt(r)]])
                          ELSE sent[r]

C8_CleanupFailureInvisible == []C8_RemovalAttempted /\ [][C8_OutcomeIgnored]_vars

\* a request was answered 200 although the removal of its staged input
\* failed and the file is still there
C8_Witness ==
    \E r \in Reqs :
        /\ pc[r] = "done" /\ Staged(r)
        /\ sent[r][1].status = 200
        /\ Exists(InPath(r)) /\ LastAttemptFailed(r, InPath(r))

\* C9: in every success envelope the extension of fileName matches mimeType,
\* for every accepted original file name including names without extension.
ExtensionOf(mimeType) ==
    CASE mimeType = "application/pdf" -> << ".", "p", "d", "f" >>
      [] mimeType = "application/vnd.openxmlformats-officedocument.wordprocessingml.document"
            -> << ".", "d", "o", "c", "x" >>
      [] mimeType = "image/jpeg" -> << ".", "j", "p", "g" >>
      [] mimeType = "image/png" -> << ".", "p", "n", "g" >>
      [] mimeType = "audio/mpeg" -> << ".", "m", "p", "3" >>
      [] mimeType = "audio/aac" -> << ".", "a", "a", "c" >>
      [] mimeType = "audio/wav" -> << ".", "w", "a", "v" >>
      [] mimeType = "audio/ogg" -> << ".", "o", "g", "g" >>
      [] OTHER -> << "?" >>

C9_FileNameMatchesMime ==
    \A r \in Reqs :
        \A m \in Responses(r) :
            m.status = 200 /\ "fileName" \in DOMAIN m.body =>
                /\ EndsWith(m.body.fileName, ExtensionOf(m.body.mimeType))
                /\ req[r].route = "audio/convert" =>
                     m.body.mimeType = AudioMime(toLowerCase(TargetFormatOf(req[r].body)))

RECURSIVE fromBase64(_)
\* Buffer.from(s, "base64") on a padded base64 string
fromBase64(s) ==
    IF Len(s) < 4 THEN <<>>
    ELSE LET c1 == B64Val(s[1])
             c2 == B64Val(s[2])
         IN  IF s[3] = "=" THEN << c1 * 4 + c2 \div 16 >>
             ELSE IF s[4] = "=" THEN
                 << c1 * 4 + c2 \div 16, (c2 % 16) * 16 + B64Val(s[3]) \div 4 >>
             ELSE
                 << c1 * 4 + c2 \div 16, (c2 % 16) * 16 + B64Val(s[3]) \div 4,
                    (B64Val(s[3]) % 4) * 64 + B64Val(s[4]) >>
                 \o fromBase64(SubSeq(s, 5, Len(s)))

\* what a client does with a data URL: drop the header, decode the payload
DecodeDataUrl(u) == fromBase64(SubSeq(u, 4, Len(u)))

\* C10: for every envelope built by fileToDataUrlResponse, decoding the
\* base64 payload of dataUrl yields exactly the buffer the strategy produced,
\* compressedSize (image/compress) and size (audio/convert) equal that
\* buffer's length, and the extra keys stand next to fileName, mimeType and
\* dataUrl.
EnvelopeKeys(route) ==
    { "fileName", "mimeType", "dataUrl" } \cup
    (IF route = "image/compress" THEN { "originalSize", "compressedSize", "compressionRatio" }
     ELSE IF route = "audio/convert" THEN { "targetFormat", "bitrate", "size" }
     ELSE {})

C10_DataUrlRoundTrip ==
    \A r \in Reqs :
        req[r].route \in FileRoutes =>
            \A m \in Responses(r) :
                m.status = 200 =>
                    /\ DOMAIN m.body = EnvelopeKeys(req[r].route)
                    /\ SubSeq(m.body.dataUrl, 1, 3) = << "data:", m.body.mimeType, ";base64," >>
                    /\ DecodeDataUrl(m.body.dataUrl) = loc[r].out
                    /\ req[r].route = "image/compress" =>
                         /\ m.body.compressedSize = Len(DecodeDataUrl(m.body.dataUrl))
                         /\ m.body.originalSize = req[r].file.size
                    /\ req[r].route = "audio/convert" =>
                         m.body.size = Len(DecodeDataUrl(m.body.dataUrl))

\* an image was compressed to a two-byte buffer (one padding character)
C10_Witness ==
    \E r \in Reqs :
        /\ pc[r] = "done" /\ req[r].route = "image/compress"
        /\ sent[r][1].status = 200
        /\ loc[r].out = << 255, 77 >>
        /\ sent[r][1].body.compressedSize = 2
        /\ sent[r][1].body.dataUrl = << "data:", "image/jpeg", ";base64,", "/", "0", "0", "=" >>

\* the category the thresholds assign to the real number w / (h/100)^2, for
\* positive integers h and w: below 18.5 iff 20000 w < 37 h^2, below 25 iff
\* 400 w < h^2, below 30 iff 1000 w < 3 h^2
ThresholdCategory(h, w) ==
    IF 20000 * w < 37 * h * h THEN "Underweight"
    ELSE IF 400 * w < h * h THEN "Normal"
    ELSE IF 1000 * w < 3 * h * h THEN "Overweight"
    ELSE "Obesity"

BmiAnswers(r) ==
    IF req[r].route = "calc/bmi" THEN { m \in Responses(r) : m.status = 200 } ELSE {}
HeightOf(r) == Number(req[r].body.heightCm).n
WeightOf(r) == Number(req[r].body.weightKg).n

\* C11 (as stated): every accepted input of calc/bmi gets the category that
\* the thresholds 18.5, 25 and 30, with closed lower bounds, assign to
\* weightKg / (heightCm/100)^2, so that a BMI of exactly 18.5 is Normal,
\* exactly 25 Overweight and exactly 30 Obesity, and the full ranges table
\* is returned whichever category matched.
C11_CategoryByThresholds ==
    \A r \in Reqs :
        \A m \in BmiAnswers(r) :
            /\ m.body.category = ThresholdCategory(HeightOf(r), WeightOf(r))
            /\ m.body.ranges = BmiRanges

PositiveNumber(v) == v.t = "number" /\ v.n > 0

\* C12 (as stated): calc/bmi accepts a request only when heightCm and
\* weightKg are both positive numbers and answers 400 otherwise: a missing
\* field, zero, a negative value and a value that is not a number (string,
\* boolean, array, null) are rejected, and no BMI is computed for them.
C12_OnlyPositiveNumbersAccepted ==
    \A r \in Reqs :
        req[r].route = "calc/bmi" =>
            \A m \in Responses(r) :
                IF PositiveNumber(req[r].body.heightCm) /\ PositiveNumber(req[r].body.weightKg)
                THEN m.status = 200
                ELSE /\ m.status = 400
                     /\ m.body = ErrorBody("heightCm and weightKg must be positive numbers")

\* name ends in a dot that is not its first character, followed by the
\* letters of ext (given without its dot) in either case and no other dot
ExtensionIs(name, ext) ==
    \E d \in 2..Len(name) :
        /\ name[d] = "."
        /\ Len(name) - d = Len(ext)
        /\ \A j \in 1..Len(ext) : LowerChar(name[d + j]) = ext[j]
ExpectedExtension(r) ==
    IF req[r].route = "docx-to-pdf"
    THEN ExtensionIs(req[r].file.originalname, << "d", "o", "c", "x" >>)
    ELSE ExtensionIs(req[r].file.originalname, << "p", "d", "f" >>)
ExtensionRejection(r) ==
    [status |-> 400,
     body |-> ErrorBody(IF req[r].route = "docx-to-pdf" THEN "Only .docx files are allowed"
                        ELSE "Only .pdf files are allowed")]

\* C13: in the document routes the strategy runs only when the uploaded
\* file's extension, compared case-insensitively, is exactly the expected
\* source extension (.docx for docx-to-pdf, .pdf for pdf-to-docx); any other
\* extension is answered 400 with 'Only .docx files are allowed'
\* (respectively 'Only .pdf files are allowed'), the staged file is not read
\* and the document engine is not invoked; an expected extension in any
\* letter case is not answered that way.
C13_ExtensionGatesStrategy ==
    \A r \in Reqs :
        req[r].route \in { "docx-to-pdf", "pdf-to-docx" } /\ Staged(r) =>
            IF ExpectedExtension(r)
            THEN /\ pc[r] # "doc_reject"
                 /\ ExtensionRejection(r) \notin Responses(r)
            ELSE /\ pc[r] \notin { "doc_read", "doc_convert" }
                 /\ reads[r] = <<>>
                 /\ loc[r] = NoLoc
                 /\ Responses(r) \subseteq { ExtensionRejection(r) }
                 /\ Finished(r) => Responses(r) # {}

\* the spec's scenario: docx-to-pdf of a staged file named a.pdf was
\* answered with the rejection and nothing else
C13_Witness ==
    \E r \in Reqs :
        /\ Finished(r) /\ Staged(r)
        /\ req[r].route = "docx-to-pdf"
        /\ req[r].file.originalname = << "a", ".", "p", "d", "f" >>
        /\ sent[r] = << ExtensionRejection(r) >>
        /\ reads[r] = <<>>

UrlRequired == [status |-> 400, body |-> ErrorBody("URL is required")]
UsableUrl(r) == req[r].body.url.t = "string" /\ req[r].body.url.s # <<>>

\* C14: url/qr answers 400 'URL is required' exactly when the body's url is
\* missing, is not a string, or is the empty string, and then the QR encoder
\* is not invoked; every non-empty string reaches the encoder whatever its
\* syntax, and the success response has fileName 'qr-code.png', mimeType
\* 'image/png' and originalUrl equal to the submitted url.
C14_UrlRequired ==
    \A r \in Reqs :
        req[r].route = "url/qr" =>
            IF UsableUrl(r)
            THEN /\ pc[r] \in { "start", "qr_encode", "done" }
                 /\ UrlRequired \notin Responses(r)
                 /\ pc[r] = "done" => Responses(r) # {}
                 /\ \A m \in Responses(r) :
                        \/ /\ m.status = 200
                           /\ m.body.fileName = << "q", "r", "-", "c", "o", "d", "e", ".", "p", "n", "g" >>
                           /\ m.body.mimeType = "image/png"
                           /\ m.body.originalUrl = req[r].body.url.s
                        \/ /\ m.status = 500
                           /\ m.body.error = "QR code generation failed"
            ELSE /\ pc[r] \in { "start", "done" }
                 /\ Responses(r) \subseteq { UrlRequired }
                 /\ pc[r] = "done" => Responses(r) # {}

\* a url that is no URL ("x") was encoded and answered 200
C14_Witness ==
    \E r \in Reqs :
        /\ req[r].route = "url/qr" /\ pc[r] = "done"
        /\ req[r].body.url = JStr(<< "x" >>)
        /\ Len(sent[r]) = 1 /\ sent[r][1].status = 200
        /\ sent[r][1].body.originalUrl = << "x" >>

\* the paths a request owns: its staged input and its allocated output
OwnPaths(r) == { req[r].file.path, loc[r].outputPath } \ { NoPath }
Slots(r) == << req[r], pc[r], loc[r], proc[r], sent[r], unlinks[r], reads[r] >>
\* a step touches request r: one of its slots or one of its files changes
Touches(r) ==
    \/ Slots(r)' # Slots(r)
    \/ \E p \in OwnPaths(r) \cup OwnPaths(r)' : staging'[p] # staging[p]
OwnOperationsOnly(r) ==
    /\ \A i \in 1..Len(reads[r]) : reads[r][i] \in OwnPaths(r)
    /\ \A i \in 1..Len(unlinks[r]) : unlinks[r][i].path \in OwnPaths(r)
    /\ loc[r].buf \in { <<>>, IF req[r].file.size = 1 THEN << 77 >> ELSE << 0, 255 >> }
PathsUnique ==
    \A r1, r2 \in Reqs : r1 # r2 => OwnPaths(r1) \cap OwnPaths(r2) = {}

\* C15: with unique staged input and allocated output paths, concurrent
\* requests are isolated under every interleaving of their suspension
\* points: a request reads and removes only its own files and what it reads
\* is what was staged for it, and a step that touches one request (its
\* handler's state, its child process, its response or its files) leaves every
\* other request's state, response and files as they were.
C15_Isolation ==
    /\ [](\A r \in Reqs : OwnOperationsOnly(r))
    /\ [][\A r1, r2 \in Reqs : r1 # r2 => ~(Touches(r1) /\ Touches(r2))]_vars

\* both requests are in flight: the transcoder of request 1 has written its
\* output and request 1 awaits it, while request 2 has read its own upload
\* and awaits the document engine
C15_Witness ==
    /\ PathsUnique
    /\ pc[1] = "au_await" /\ Exists(loc[1].outputPath) /\ Exists(InPath(1))
    /\ pc[2] = "doc_convert" /\ loc[2].buf = << 0, 255 >> /\ Exists(InPath(2))

\* the transcoder of request r was spawned and has emitted neither 'close'
\* nor 'error' so far
Silent(r) ==
    /\ req[r].route = "audio/convert"
    /\ proc[r].state # "none"
    /\ Events(r) \cap { "close", "error" } = {}

\* C16: as long as the transcoder spawned by audio/convert has emitted
\* neither 'close' nor 'error', the request is suspended at its await: no
\* response has been sent, no removal has been attempted and the staged
\* input file is still there; nothing but one of these two events ends the
\* wait, so a transcoder that never emits them suspends the request forever.
C16_HungTranscoderSuspends ==
    \A r \in Reqs :
        Silent(r) =>
            /\ pc[r] = "au_await"
            /\ proc[r].promise = "pending"
            /\ sent[r] = <<>>
            /\ unlinks[r] = <<>>
            /\ reads[r] = <<>>
            /\ Exists(req[r].file.path)

\* the transcoder has written output and diagnostics and then hangs
C16_Witness ==
    \E r \in Reqs :
        /\ Silent(r)
        /\ Exists(loc[r].outputPath)
        /\ Len(proc[r].events) >= 2
        /\ ~ENABLED AudioResume(r)

\* the target format and the bitrate the caller asked for
AskedFormat(r) ==
    IF req[r].body.targetFormat = Undefined THEN << "m", "p", "3" >>
    ELSE toLowerCase(req[r].body.targetFormat.s)
AskedBitrate(r) ==
    IF req[r].body.bitrate = Undefined THEN << "1", "9", "2", "k" >>
    ELSE req[r].body.bitrate.s
ExpectedCodecArgs(r) ==
    LET lossy(codec) == << << "-codec:a" >>, << codec >>, << "-b:a" >>, AskedBitrate(r) >>
    IN  CASE AskedFormat(r) = << "m", "p", "3" >> -> lossy("libmp3lame")
          [] AskedFormat(r) = << "a", "a", "c" >> -> lossy("aac")
          [] AskedFormat(r) = << "o", "g", "g" >> -> lossy("libvorbis")
          [] AskedFormat(r) = << "w", "a", "v" >> -> << << "-codec:a" >>, << "pcm_s16le" >> >>
          [] OTHER -> <<>>
ExpectedAudioMime(r) ==
    CASE AskedFormat(r) = << "m", "p", "3" >> -> "audio/mpeg"
      [] AskedFormat(r) = << "a", "a", "c" >> -> "audio/aac"
      [] AskedFormat(r) = << "o", "g", "g" >> -> "audio/ogg"
      [] AskedFormat(r) = << "w", "a", "v" >> -> "audio/wav"
      [] OTHER -> ""
Spawned(r) == req[r].route = "audio/convert" /\ proc[r].state # "none"

\* C17: for every accepted audio request the argument list given to the
\* transcoder is '-y', '-i', the staged input path, '-vn', the codec
\* arguments of the target format and last the allocated output path; for
\* mp3, aac and ogg the codec arguments carry the caller's bitrate verbatim
\* ('192k' when absent), for wav they force pcm_s16le and contain no bitrate;
\* the response MIME type is audio/mpeg for mp3 and audio/<format> for aac,
\* wav and ogg.
C17_TranscoderArguments ==
    \A r \in Reqs :
        Spawned(r) =>
            /\ loc[r].ffArgs =
                  << << "-y" >>, << "-i" >>, req[r].file.path, << "-vn" >> >>
                      \o ExpectedCodecArgs(r) \o << loc[r].outputPath >>
            /\ ExpectedCodecArgs(r) # <<>>
            /\ loc[r].outputPath # NoPath /\ loc[r].outputPath # req[r].file.path
            /\ \A m \in Responses(r) :
                  m.status = 200 => m.body.mimeType = ExpectedAudioMime(r)

\* a conversion to WAV with bitrate 128k was answered 200: six arguments
\* before the output path, none of them the bitrate
C17_Witness ==
    \E r \in Reqs :
        /\ Spawned(r) /\ pc[r] = "done"
        /\ req[r].body.targetFormat = JStr(<< "W", "A", "V" >>)
        /\ req[r].body.bitrate = JStr(<< "1", "2", "8", "k" >>)
        /\ Len(loc[r].ffArgs) = 7
        /\ \E m \in Responses(r) : m.status = 200 /\ m.body.mimeType = "audio/wav"

\* the strategy of request r (engine, codec, encoder, process or the BMI
\* computation) has been invoked
Invoked(r) ==
    \/ Dispatched(r)
    \/ pc[r] = "qr_encode"
    \/ reads[r] # <<>>
    \/ proc[r].state # "none"
    \/ loc[r] # NoLoc
    \/ req[r].route # "health" /\ \E m \in Responses(r) : m.status \in { 200, 500 }
NoFileUploaded == [status |-> 400, body |-> ErrorBody("No file uploaded")]

\* C18: each request follows Received, Validated, Dispatched, Succeeded or
\* Failed, Cleaned: a strategy is invoked only after every validation check
\* of its route has passed, a dispatched request is cleaned only after its
\* outcome was answered, and a file-bearing request that arrives without a
\* file is answered 400 'No file uploaded' at once, with no strategy
\* invoked, nothing staged and no removal attempted.
C18_Lifecycle ==
    \A r \in Reqs :
        /\ Invoked(r) => ~ValidationFault(r)
        /\ Invoked(r) /\ unlinks[r] # <<>> => sent[r] # <<>>
        /\ Invoked(r) /\ Finished(r) => sent[r] # <<>>
        /\ req[r].route \in FileRoutes /\ req[r].file.path = NoPath =>
              /\ pc[r] \in { "start", "done" }
              /\ ~Invoked(r)
              /\ Responses(r) \subseteq { NoFileUploaded }
              /\ pc[r] = "done" => sent[r] = << NoFileUploaded >>
              /\ unlinks[r] = <<>>
              /\ \A p \in Paths : ~Exists(p)

\* an audio request without a file was answered and nothing else happened
C18_Witness ==
    \E r \in Reqs :
        /\ pc[r] = "done"
        /\ req[r].route = "audio/convert" /\ req[r].file.path = NoPath
        /\ sent[r] = << NoFileUploaded >>
        /\ unlinks[r] = <<>> /\ proc[r] = NoProc

\* a step in which request r attempts a removal
Releases(r) == Len(unlinks'[r]) > Len(unlinks[r])

\* C19 (as stated): in every file-bearing request the JSON response is
\* emitted before the staged input file is released, on every path: success
\* (200), strategy failure (500) and validation rejection (400).
C19_ResponseBeforeRelease ==
    [][\A r \in Reqs : Releases(r) => sent[r] # <<>>]_vars

\* C19 (amended): a request that passed validation is answered (200 or 500)
\* before its staged input is released; a staged upload that fails
\* validation is released first and answered 400 right after, in the same
\* continuation of the handler.
C19_ResponseBeforeReleaseUnlessRejected ==
    [][\A r \in Reqs :
          Releases(r) =>
              IF ValidationFault(r) /\ unlinks[r] = <<>>
              THEN /\ sent[r] = <<>>
                   /\ Len(sent'[r]) = 1 /\ sent'[r][1].status = 400
                   /\ unlinks'[r][1].path = req[r].file.path
              ELSE /\ sent[r] # <<>>
                   /\ sent'[r] = sent[r]
                   /\ ~ValidationFault(r) => sent[r][1].status \in { 200, 500 }]_vars

\* an audio upload with a disallowed target format: one removal, then 400
C19_Witness ==
    \E r \in Reqs :
        /\ pc[r] = "done" /\ req[r].route = "audio/convert" /\ Staged(r)
        /\ ValidationFault(r)
        /\ Len(unlinks[r]) = 1 /\ unlinks[r][1].path = req[r].file.path
        /\ sent[r] = << [status |-> 400, body |-> ErrorBody("Invalid target format")] >>

\* w / (h/100)^2 rounded to 2 decimal places, in hundredths
RoundedBmi(h, w) == (2 * 1000000 * w + h * h) \div (2 * h * h)
\* the category the thresholds assign to a bmi given in hundredths
CategoryOfHundredths(b) ==
    IF b < 1850 THEN "Underweight"
    ELSE IF b < 2500 THEN "Normal"
    ELSE IF b < 3000 THEN "Overweight"
    ELSE "Obesity"

\* C20 (as stated): for every accepted input of calc/bmi the returned bmi is
\* weightKg / (heightCm/100)^2 rounded to 2 decimal places, and the returned
\* category is the one the thresholds assign to that returned bmi, so that
\* a response with bmi 18.5 has category Normal, bmi 25 Overweight and bmi
\* 30 Obesity.
C20_ReturnedPairConsistent ==
    \A r \in Reqs :
        \A m \in BmiAnswers(r) :
            /\ m.body.bmi = RoundedBmi(HeightOf(r), WeightOf(r))
            /\ m.body.category = CategoryOfHundredths(m.body.bmi)

\* C21: every request whose handler runs to completion has sent exactly one
\* response, and no request ever sends a second one: this holds for a
\* missing input, a validation rejection followed by the finally block, a
\* strategy success or failure, an 'error' followed by a 'close' of the
\* child process, and a failed cleanup.
C21_ExactlyOneResponse ==
    \A r \in Reqs :
        /\ Len(sent[r]) <= 1
        /\ Finished(r) => Len(sent[r]) = 1
        /\ pc[r] \in { "idle", "start" } => sent[r] = <<>>

\* an audio request whose transcoder emitted 'error' and then 'close', and
\* whose removal of the staged input failed, has finished with one response
C21_Witness ==
    \E r \in Reqs :
        /\ Finished(r) /\ req[r].route = "audio/convert"
        /\ { "error", "close" } \subseteq Events(r)
        /\ \E i \in 1..Len(unlinks[r]) : ~unlinks[r][i].ok
        /\ Len(sent[r]) = 1 /\ sent[r][1].status = 500

====
